---------------------------- MODULE Spec2Model ----------------------------
(***************************************************************************)
(* A model of wordlist-oracle.py: one run of main(), from the parsed       *)
(* arguments to the printed JSON report.                                   *)
(*                                                                         *)
(* Text is a sequence of code points, bytes are a sequence of 0..255.      *)
(* The dictionary decoder (Base64, XOR with KEY, UTF-8 with replacement),  *)
(* the sampler and the scoring are computed as the code computes them.     *)
(* SHA-256 is the one library function that is abstracted: a digest of     *)
(* the same bytes (salt first, word second) into 0..MAX_HASH-1, with       *)
(* MAX_HASH scaled from 2^256 to 2^8.                                      *)
(***************************************************************************)
EXTENDS Integers, Sequences, FiniteSets

VARIABLES
    pc,         \* where main() is: "start", "load_superdic", "decode",
                \* "load_candidate", "score", "done", "exit", "raised"
    exc,        \* the exception that ended the run ("" while none)
    nonce,      \* args.nonce
    fraction,   \* args.fraction
    data,       \* load_superdic: the bytes read from the dictionary file
    lines,      \* load_superdic: the records the for loop has still to visit
    consumed,   \* load_candidate: the lines the for loop has read from stdin
    total,      \* the running function's local `total`
    words,      \* the running function's local `words`
    ref_total,  \* main: ref_total
    ref,        \* main: ref
    candidate_total, \* main: candidate_total
    candidate,  \* main: candidate
    result      \* main: the report dictionary that is printed

vars == <<pc, exc, nonce, fraction, data, lines, consumed, total, words,
          ref_total, ref, candidate_total, candidate, result>>

(***************************************************************************)
(* Bounds of the model.                                                    *)
(***************************************************************************)
\* the largest number of records after the [Words] marker
MaxRecords == 2
\* the largest number of lines read from stdin
MaxLines == 2

(***************************************************************************)
(* Program constants.                                                      *)
(***************************************************************************)
\* KEY = b'7AVFU8PP'
KEY == <<55, 65, 86, 70, 85, 56, 80, 80>>
\* MAX_HASH = 2 ** 256, scaled to the width of the modelled digest
MAX_HASH == 256
\* b'[Words]\r\n'
MARKER == <<91, 87, 111, 114, 100, 115, 93, 13, 10>>
\* b'\r\n'
CRLF == <<13, 10>>

(***************************************************************************)
(* Python's integer, bytes and str primitives.                             *)
(***************************************************************************)
\* a // b, Python's floor division for b # 0
FloorDiv(a, b) ==
    IF b > 0 THEN a \div b ELSE (0 - a) \div (0 - b)

RECURSIVE BitXor(_, _, _)
\* a ^ b on the low n bits
BitXor(a, b, n) ==
    IF n = 0 THEN 0
    ELSE (((a % 2) + (b % 2)) % 2) + (2 * BitXor(a \div 2, b \div 2, n - 1))

\* s[i:] with 1-based i
Drop(s, i) == SubSeq(s, i, Len(s))

\* whether sub occurs in s at 1-based position i
OccursAt(s, sub, i) ==
    /\ i + Len(sub) - 1 <= Len(s)
    /\ \A k \in 1..Len(sub) : s[i + k - 1] = sub[k]

\* s.find(sub): the first 1-based position of sub in s, 0 when absent
Find(s, sub) ==
    LET hits == {i \in 1..Len(s) : OccursAt(s, sub, i)}
    IN  IF hits = {} THEN 0 ELSE CHOOSE i \in hits : \A j \in hits : i <= j

\* sub in s
Contains(s, sub) == Find(s, sub) # 0

RECURSIVE Split(_, _)
\* s.split(sep)
Split(s, sep) ==
    LET i == Find(s, sep)
    IN  IF i = 0 THEN <<s>>
        ELSE <<SubSeq(s, 1, i - 1)>> \o Split(Drop(s, i + Len(sep)), sep)

\* the value of a Base64 alphabet character, 64 for any other character
B64Value(c) ==
    IF c \in 65..90 THEN c - 65
    ELSE IF c \in 97..122 THEN c - 71
    ELSE IF c \in 48..57 THEN c + 4
    ELSE IF c = 43 THEN 62
    ELSE IF c = 47 THEN 63
    ELSE 64

RECURSIVE A2bBase64(_, _, _, _, _, _)
\* binascii.a2b_base64 from character i on: quad_pos characters of the current
\* quad are consumed, leftchar holds their unused bits, pads counts the '='
\* seen since the last alphabet character. Characters outside the alphabet
\* are skipped; a quad left open at the end raises binascii.Error.
A2bBase64(s, i, quad_pos, leftchar, pads, out) ==
    IF i > Len(s)
    THEN [exc |-> IF quad_pos # 0 THEN "binascii.Error" ELSE "", ret |-> out]
    ELSE IF s[i] = 61
    THEN IF quad_pos >= 2 /\ quad_pos + pads + 1 >= 4
         THEN [exc |-> "", ret |-> out]
         ELSE A2bBase64(s, i + 1, quad_pos, leftchar,
                        IF quad_pos >= 2 THEN pads + 1 ELSE pads, out)
    ELSE LET ch == B64Value(s[i])
         IN  IF ch >= 64 THEN A2bBase64(s, i + 1, quad_pos, leftchar, pads, out)
             ELSE IF quad_pos = 0 THEN A2bBase64(s, i + 1, 1, ch, 0, out)
             ELSE IF quad_pos = 1
             THEN A2bBase64(s, i + 1, 2, ch % 16, 0,
                            Append(out, (leftchar * 4) + (ch \div 16)))
             ELSE IF quad_pos = 2
             THEN A2bBase64(s, i + 1, 3, ch % 4, 0,
                            Append(out, (leftchar * 16) + (ch \div 4)))
             ELSE A2bBase64(s, i + 1, 0, 0, 0, Append(out, (leftchar * 64) + ch))

\* base64.b64decode(line)
b64decode(line) == A2bBase64(line, 1, 0, 0, 0, <<>>)

\* bytes(b ^ KEY[i % len(KEY)] for i, b in enumerate(raw)), i counted from 0
XorKey(raw) ==
    [i \in 1..Len(raw) |-> BitXor(raw[i], KEY[((i - 1) % Len(KEY)) + 1], 8)]

RECURSIVE Utf8Decode(_)
\* bytes.decode('utf-8', errors='replace') for one- and two-byte sequences: an
\* ASCII byte is its code point, a lead byte C2..DF with a continuation byte
\* 80..BF is one code point, and any other byte becomes U+FFFD
Utf8Decode(b) ==
    IF b = <<>> THEN <<>>
    ELSE IF b[1] < 128 THEN <<b[1]>> \o Utf8Decode(Tail(b))
    ELSE IF b[1] \in 194..223 /\ Len(b) >= 2 /\ b[2] \in 128..191
    THEN <<((b[1] - 192) * 64) + (b[2] - 128)>> \o Utf8Decode(Drop(b, 3))
    ELSE <<65533>> \o Utf8Decode(Tail(b))

RECURSIVE Utf8Encode(_)
\* str.encode('utf-8') for code points below U+10000
Utf8Encode(t) ==
    IF t = <<>> THEN <<>>
    ELSE LET c == t[1]
         IN  (IF c < 128 THEN <<c>>
              ELSE IF c < 2048 THEN <<192 + (c \div 64), 128 + (c % 64)>>
              ELSE <<224 + (c \div 4096), 128 + ((c \div 64) % 64), 128 + (c % 64)>>)
             \o Utf8Encode(Tail(t))

\* str.isspace() for the ASCII range
IsSpace(c) == c \in (9..13) \cup (28..32)

RECURSIVE LStrip(_)
LStrip(t) == IF t # <<>> /\ IsSpace(t[1]) THEN LStrip(Tail(t)) ELSE t

RECURSIVE RStrip(_)
RStrip(t) ==
    IF t # <<>> /\ IsSpace(t[Len(t)]) THEN RStrip(SubSeq(t, 1, Len(t) - 1)) ELSE t

\* str.strip()
Strip(t) == RStrip(LStrip(t))

\* str.upper() on ASCII letters; other code points of the model have no
\* upper-case mapping
Upper(t) == [i \in 1..Len(t) |-> IF t[i] \in 97..122 THEN t[i] - 32 ELSE t[i]]

RECURSIVE Digest(_, _)
\* the digest of a byte string as an integer in 0..MAX_HASH-1, standing for
\* int(hashlib.sha256(b).hexdigest(), 16)
Digest(b, h) ==
    IF b = <<>> THEN h
    ELSE Digest(Tail(b), ((h * 37) + (b[1] * 11) + 101) % MAX_HASH)

sha256(b) == Digest(b, 7)

(***************************************************************************)
(* The sampler.                                                            *)
(***************************************************************************)
\* should_include with the threshold taken for fraction + 1 and no shortcut
should_include_OffByOne(w, n, f) ==
    IF f + 1 = 0 THEN [exc |-> "ZeroDivisionError", ret |-> FALSE]
    ELSE [exc |-> "", ret |-> sha256(Utf8Encode(n \o w)) < FloorDiv(MAX_HASH, f + 1)]

\* should_include(word, nonce, fraction): MAX_HASH // 0 raises
should_include(w, n, f) ==
    IF f = 1 THEN [exc |-> "", ret |-> TRUE]
    ELSE IF f = 0 THEN [exc |-> "ZeroDivisionError", ret |-> FALSE]
    ELSE [exc |-> "", ret |-> sha256(Utf8Encode(n \o w)) < FloorDiv(MAX_HASH, f)]

(***************************************************************************)
(* The loaders' loop bodies.                                               *)
(***************************************************************************)
\* the length test with its lower limit at 1
LengthValid_From1(w) == 1 <= Len(w) /\ Len(w) <= 9

\* 2 <= len(word) <= 9
LengthValid(w) == 2 <= Len(w) /\ Len(w) <= 9

\* the split done with str.partition, which does not raise
SplitAtEq_Partition(decoded) ==
    LET eq_pos == Find(decoded, <<61>>)
    IN  IF eq_pos = 0
        THEN [exc |-> "", word |-> decoded, rest |-> <<>>]
        ELSE [exc |-> "", word |-> SubSeq(decoded, 1, eq_pos - 1),
              rest |-> Drop(decoded, eq_pos + 1)]

\* eq_pos = decoded.index('='); word = decoded[:eq_pos];
\* rest = decoded[eq_pos + 1:]. str.index raises ValueError when '=' is absent
SplitAtEq(decoded) ==
    LET eq_pos == Find(decoded, <<61>>)
    IN  IF eq_pos = 0
        THEN [exc |-> "ValueError", word |-> <<>>, rest |-> <<>>]
        ELSE [exc |-> "", word |-> SubSeq(decoded, 1, eq_pos - 1),
              rest |-> Drop(decoded, eq_pos + 1)]

\* the variant test with ';2' forgotten
IsVariant_Only1(rest) == Contains(rest, <<59, 49>>)

\* ';1' in rest or ';2' in rest
IsVariant(rest) == Contains(rest, <<59, 49>>) \/ Contains(rest, <<59, 50>>)

\* the set overwritten instead of extended
AddWord_Replace(ws, w) == {w}

\* words.add(word)
AddWord(ws, w) == ws \cup {w}

\* total += 1; if should_include(word, nonce, fraction): words.add(word)
Sample(tot, ws, w, n, f) ==
    LET inc == should_include(w, n, f)
    IN  [exc |-> inc.exc, total |-> tot + 1,
         words |-> IF inc.exc = "" /\ inc.ret THEN AddWord(ws, w) ELSE ws]

\* the loop body's outcome when the record or line is passed over
Skip(tot, ws) == [exc |-> "", total |-> tot, words |-> ws]

\* the loop body's outcome when it raises
Raise(e, tot, ws) == [exc |-> e, total |-> tot, words |-> ws]

\* one iteration of load_superdic's for loop on record `line`
DecodeStep(line, tot, ws, n, f) ==
    IF line = <<>> THEN Skip(tot, ws)
    ELSE LET raw == b64decode(line)
         IN  IF raw.exc # "" THEN Raise(raw.exc, tot, ws)
             ELSE LET decoded == Utf8Decode(XorKey(raw.ret))
                      sp == SplitAtEq(decoded)
                  IN  IF sp.exc # "" THEN Raise(sp.exc, tot, ws)
                      ELSE IF IsVariant(sp.rest) THEN Skip(tot, ws)
                      ELSE IF LengthValid(sp.word)
                      THEN Sample(tot, ws, sp.word, n, f)
                      ELSE Skip(tot, ws)

\* the line normalised to lower case
NormalizeLine_Lower(line) ==
    LET t == Strip(line)
    IN  [i \in 1..Len(t) |-> IF t[i] \in 65..90 THEN t[i] + 32 ELSE t[i]]

\* word = line.strip().upper()
NormalizeLine(line) == Upper(Strip(line))

\* one iteration of load_candidate's for loop on `line`
CandidateStep(line, tot, ws, n, f) ==
    LET w == NormalizeLine(line)
    IN  IF w = <<>> \/ ~LengthValid(w) THEN Skip(tot, ws)
        ELSE Sample(tot, ws, w, n, f)

(***************************************************************************)
(* The scoring of main().                                                  *)
(***************************************************************************)
\* tp = len(candidate & ref)
TruePositives(cand, rf) == Cardinality(cand \cap rf)
\* the false positives taken as the whole candidate set
FalsePositives_All(cand, rf) == Cardinality(cand)

\* fp = len(candidate - ref)
FalsePositives(cand, rf) == Cardinality(cand \ rf)
\* fn = len(ref - candidate)
FalseNegatives(cand, rf) == Cardinality(rf \ cand)

\* round(tp / n * 100, 4), in ten-thousandths of a percent; tp / 0 raises
Pct(tp, n) ==
    IF n = 0 THEN [exc |-> "ZeroDivisionError", ret |-> 0]
    ELSE [exc |-> "", ret |-> ((2 * tp * 1000000) + n) \div (2 * n)]

\* the recall without its guard
RecallPct_Unguarded(tp, rf) == Pct(tp, Cardinality(rf))

\* round(tp / len(ref) * 100, 4) if ref else 0.0
RecallPct(tp, rf) ==
    IF rf # {} THEN Pct(tp, Cardinality(rf)) ELSE [exc |-> "", ret |-> 0]

\* round(tp / len(candidate) * 100, 4) if candidate else 0.0
PrecisionPct(tp, cand) ==
    IF cand # {} THEN Pct(tp, Cardinality(cand)) ELSE [exc |-> "", ret |-> 0]

\* the result dictionary of main()
Report(n, f, rtotal, rf, ctotal, cand) ==
    [nonce |-> n, fraction |-> f,
     reference_total |-> rtotal, reference_sampled |-> Cardinality(rf),
     candidate_total |-> ctotal, candidate_sampled |-> Cardinality(cand),
     true_positives |-> TruePositives(cand, rf),
     false_positives |-> FalsePositives(cand, rf),
     false_negatives |-> FalseNegatives(cand, rf),
     recall_pct |-> RecallPct(TruePositives(cand, rf), rf).ret,
     precision_pct |-> PrecisionPct(TruePositives(cand, rf), cand).ret]

\* the exception the two percentage expressions raise, "" when none
ReportExc(rf, cand) ==
    IF RecallPct(TruePositives(cand, rf), rf).exc # ""
    THEN RecallPct(TruePositives(cand, rf), rf).exc
    ELSE PrecisionPct(TruePositives(cand, rf), cand).exc

\* `result` before main() builds it
NoReport ==
    [nonce |-> <<>>, fraction |-> 1,
     reference_total |-> -1, reference_sampled |-> -1,
     candidate_total |-> -1, candidate_sampled |-> -1,
     true_positives |-> -1, false_positives |-> -1, false_negatives |-> -1,
     recall_pct |-> -1, precision_pct |-> -1]

(***************************************************************************)
(* The inputs of a run.                                                    *)
(***************************************************************************)
\* the records of the dictionary files: Base64(XOR(text, KEY)) of
\*   "CAT="          dAACew==            an admitted word
\*   "cat="          VCAiew==            an admitted word in lower case
\*   "C\xffT="       dL4Cew==            an admitted word with a malformed byte
\*   "RUN=;1"        ZRQYe24J            a variant-tagged record
\*   "ON=x;2="       eA9rPm4KbQ==        a variant-tagged record with two '='
\*   "A="            dnw=                a word that is too short
\*   "ABCDEFGHIJ="   dgMVAhB+Fxh+C2s=    a word that is too long
\*   "NOEQ"          eQ4TFw==            a record without '='
\* and "dA", which is not Base64 (its padding is missing)
RecordSet ==
    { <<100, 65, 65, 67, 101, 119, 61, 61>>,
      <<86, 67, 65, 105, 101, 119, 61, 61>>,
      <<100, 76, 52, 67, 101, 119, 61, 61>>,
      <<90, 82, 81, 89, 101, 50, 52, 74>>,
      <<101, 65, 57, 114, 80, 109, 52, 75, 98, 81, 61, 61>>,
      <<100, 110, 119, 61>>,
      <<100, 103, 77, 86, 65, 104, 66, 43, 70, 120, 104, 43, 67, 50, 115, 61>>,
      <<101, 81, 52, 84, 70, 119, 61, 61>>,
      <<100, 65>> }

\* the sequences of at most n elements of S
SeqsUpTo(S, n) == UNION {[1..k -> S] : k \in 0..n}

RECURSIVE JoinRecords(_)
\* the records of a file, each ended by CRLF
JoinRecords(recs) ==
    IF recs = <<>> THEN <<>> ELSE Head(recs) \o CRLF \o JoinRecords(Tail(recs))

\* "[Header]\r\n", the part of a dictionary file before the [Words] section
HEADER == <<91, 72, 101, 97, 100, 101, 114, 93, 13, 10>>

\* the contents open(path, 'rb').read() may return: a header, the section
\* marker and at most MaxRecords records, or a file without the marker
Dictionaries ==
    {HEADER \o MARKER \o JoinRecords(recs) : recs \in SeqsUpTo(RecordSet, MaxRecords)}
    \cup {HEADER \o JoinRecords(recs) : recs \in SeqsUpTo(RecordSet, 1)}

\* the lines stdin may deliver: "cat\n", " CAT \r\n", "run\n", "a\n",
\* "abcdefghij\n", "\n"
LineSet ==
    { <<99, 97, 116, 10>>,
      <<32, 67, 65, 84, 32, 13, 10>>,
      <<114, 117, 110, 10>>,
      <<97, 10>>,
      <<97, 98, 99, 100, 101, 102, 103, 104, 105, 106, 10>>,
      <<10>> }

\* the values of --nonce: "" and "x"
Nonces == {<<>>, <<120>>}

\* the values of --fraction (type=int, not validated)
Fractions == {-1, 0, 1, 2, 3}

(***************************************************************************)
(* The run.                                                                *)
(***************************************************************************)
Init ==
    /\ pc = "start"
    /\ exc = ""
    /\ nonce \in Nonces
    /\ fraction \in Fractions
    /\ data = <<>>
    /\ lines = <<>>
    /\ consumed = <<>>
    /\ total = 0
    /\ words = {}
    /\ ref_total = 0
    /\ ref = {}
    /\ candidate_total = 0
    /\ candidate = {}
    /\ result = NoReport

\* main() up to the call of load_superdic: the arguments are parsed and the
\* dictionary path is resolved; args.fraction is not examined
Main ==
    /\ pc = "start"
    /\ pc' = "load_superdic"
    /\ UNCHANGED <<exc, nonce, fraction, data, lines, consumed, total, words,
                   ref_total, ref, candidate_total, candidate, result>>

\* load_superdic up to its for loop: the file is read and the marker searched
LoadSuperdicOpen ==
    /\ pc = "load_superdic"
    /\ \E d \in Dictionaries :
        LET idx == Find(d, MARKER)
        IN  /\ data' = d
            /\ IF idx = 0
               THEN /\ pc' = "exit"
                    /\ exc' = "SystemExit"
                    /\ lines' = <<>>
               ELSE /\ pc' = "decode"
                    /\ exc' = ""
                    /\ lines' = Split(Drop(d, idx + Len(MARKER)), CRLF)
    /\ total' = 0
    /\ words' = {}
    /\ UNCHANGED <<nonce, fraction, consumed, ref_total, ref,
                   candidate_total, candidate, result>>

\* the effect of one loop iteration with outcome r, `rest` being left to visit
LoopEffect(r, rest) ==
    /\ total' = r.total
    /\ words' = r.words
    /\ lines' = rest
    /\ IF r.exc = ""
       THEN UNCHANGED <<pc, exc>>
       ELSE pc' = "raised" /\ exc' = r.exc
    /\ UNCHANGED <<nonce, fraction, data, consumed, ref_total, ref,
                   candidate_total, candidate, result>>

\* one iteration of load_superdic's for loop, on the next record
DecodeLine ==
    /\ pc = "decode"
    /\ lines # <<>>
    /\ LoopEffect(DecodeStep(Head(lines), total, words, nonce, fraction),
                  Tail(lines))

\* load_superdic returns (total, words) to main; its locals are gone
ReturnSuperdic ==
    /\ pc = "decode"
    /\ lines = <<>>
    /\ ref_total' = total
    /\ ref' = words
    /\ pc' = "load_candidate"
    /\ data' = <<>>
    /\ total' = 0
    /\ words' = {}
    /\ UNCHANGED <<exc, nonce, fraction, lines, consumed,
                   candidate_total, candidate, result>>

\* one iteration of load_candidate's for loop, on the line stdin delivers
CandidateLine ==
    /\ pc = "load_candidate"
    /\ Len(consumed) < MaxLines
    /\ \E line \in LineSet :
        LET r == CandidateStep(line, total, words, nonce, fraction)
        IN  /\ consumed' = Append(consumed, line)
            /\ total' = r.total
            /\ words' = r.words
            /\ IF r.exc = ""
               THEN UNCHANGED <<pc, exc>>
               ELSE pc' = "raised" /\ exc' = r.exc
    /\ UNCHANGED <<nonce, fraction, data, lines, ref_total, ref,
                   candidate_total, candidate, result>>

\* stdin is at its end: load_candidate returns (total, words) to main
ReturnCandidate ==
    /\ pc = "load_candidate"
    /\ candidate_total' = total
    /\ candidate' = words
    /\ pc' = "score"
    /\ total' = 0
    /\ words' = {}
    /\ UNCHANGED <<exc, nonce, fraction, data, lines, consumed,
                   ref_total, ref, result>>

\* main() from tp = ... to print(json.dumps(result))
Score ==
    /\ pc = "score"
    /\ IF ReportExc(ref, candidate) = ""
       THEN /\ result' = Report(nonce, fraction, ref_total, ref,
                                candidate_total, candidate)
            /\ pc' = "done"
            /\ exc' = ""
       ELSE /\ result' = result
            /\ pc' = "raised"
            /\ exc' = ReportExc(ref, candidate)
    /\ UNCHANGED <<nonce, fraction, data, lines, consumed, total, words,
                   ref_total, ref, candidate_total, candidate>>

Next ==
    \/ Main
    \/ LoadSuperdicOpen
    \/ DecodeLine
    \/ ReturnSuperdic
    \/ CandidateLine
    \/ ReturnCandidate
    \/ Score

Spec == Init /\ [][Next]_vars

\* s without its i-th element
RemoveAt(s, i) == SubSeq(s, 1, i - 1) \o SubSeq(s, i + 1, Len(s))

\* one iteration of the loop body on any record still to visit: the records
\* decoded in an arbitrary order, as a reimplementation may
DecodeAny ==
    /\ pc = "decode"
    /\ lines # <<>>
    /\ \E i \in DOMAIN lines :
        LoopEffect(DecodeStep(lines[i], total, words, nonce, fraction),
                   RemoveAt(lines, i))

NextAnyOrder ==
    \/ Main
    \/ LoadSuperdicOpen
    \/ DecodeAny
    \/ ReturnSuperdic
    \/ CandidateLine
    \/ ReturnCandidate
    \/ Score

SpecAnyOrder == Init /\ [][NextAnyOrder]_vars

RECURSIVE LoadSequential(_, _, _, _, _)
\* load_superdic's for loop over recs from left to right, up to the first
\* exception
LoadSequential(recs, tot, ws, n, f) ==
    IF recs = <<>> THEN Skip(tot, ws)
    ELSE LET r == DecodeStep(Head(recs), tot, ws, n, f)
         IN  IF r.exc # "" THEN r
             ELSE LoadSequential(Tail(recs), r.total, r.words, n, f)

(***************************************************************************)
(* What the properties speak about.                                        *)
(***************************************************************************)
\* the dictionary has been read and holds the section marker
HasMarker == data # <<>> /\ Find(data, MARKER) # 0

\* the records after the section marker of the dictionary that was read
Records == Split(Drop(data, Find(data, MARKER) + Len(MARKER)), CRLF)

\* the text a record decodes to
TextOf(rec) == Utf8Decode(XorKey(b64decode(rec).ret))

\* the part of a record's text before its first '='
WordOf(rec) ==
    LET t == TextOf(rec)
    IN  SubSeq(t, 1, Find(t, <<61>>) - 1)

\* a non-empty record that decodes to text without '='
Malformed(rec) ==
    /\ rec # <<>>
    /\ b64decode(rec).exc = ""
    /\ LET t == TextOf(rec) IN \A k \in DOMAIN t : t[k] # 61

\* a non-empty record whose word has 2 to 9 code points and whose remainder
\* after its first '=' holds neither ";1" nor ";2"
Admitted(rec) ==
    /\ rec # <<>>
    /\ b64decode(rec).exc = ""
    /\ LET t == TextOf(rec)
           eq == Find(t, <<61>>)
       IN  /\ eq # 0
           /\ (eq - 1) \in 2..9
           /\ \A k \in (eq + 1)..(Len(t) - 1) :
                ~(t[k] = 59 /\ t[k + 1] \in {49, 50})

\* the positions of the admitted records among recs
AdmittedIdx(recs) == {i \in DOMAIN recs : Admitted(recs[i])}

\* the words of the records recs, by position
WordsOf(recs) == [i \in DOMAIN recs |-> WordOf(recs[i])]

\* load_superdic has finished its loop and is about to return (total, words)
SuperdicReturning == pc = "decode" /\ lines = <<>>

\* the positions of the lines read that hold a word of 2 to 9 code points
ValidLineIdx == {i \in DOMAIN consumed : Len(NormalizeLine(consumed[i])) \in 2..9}

\* a word in canonical form: no lower-case letter, no white space at either end
Canonical(w) ==
    /\ \A k \in DOMAIN w : w[k] \notin 97..122
    /\ w # <<>> => (w[1] \notin (9..13) \cup (28..32)
                    /\ w[Len(w)] \notin (9..13) \cup (28..32))

\* the words an alternative reference list may hold
AltWords ==
    { <<67, 65, 84>>, <<82, 85, 78>>, <<68, 79, 71>>, <<66, 73, 82, 68>>,
      <<99, 97, 116>>, <<79, 78>> }

(***************************************************************************)
(* C1. The report of a run does not determine whether a word the caller    *)
(* submitted is in the reference set: whenever the sampled reference set   *)
(* is not empty, for every word W of the candidate set there is another    *)
(* reference set, producible under the same salt and denominator with the  *)
(* same total, that differs from the actual one on W and yields the same   *)
(* report.                                                                 *)
(***************************************************************************)
C1_ReportHidesMembership ==
    (pc = "done" /\ fraction >= 1 /\ ref # {}) =>
        \A W \in candidate :
            \E r2 \in SUBSET {w \in AltWords : should_include(w, nonce, fraction).ret} :
                /\ Cardinality(r2) <= ref_total
                /\ (W \in r2) # (W \in ref)
                /\ Report(nonce, fraction, ref_total, r2,
                          candidate_total, candidate) = result

(***************************************************************************)
(* C2. In the report, true_positives + false_negatives is the size of the  *)
(* sampled reference set and true_positives + false_positives the size of  *)
(* the sampled candidate set.                                              *)
(***************************************************************************)
C2_SetArithmetic ==
    pc = "done" =>
        /\ result.true_positives + result.false_negatives = result.reference_sampled
        /\ result.reference_sampled = Cardinality(ref)
        /\ result.true_positives + result.false_positives = result.candidate_sampled
        /\ result.candidate_sampled = Cardinality(candidate)

C2_Witness ==
    /\ pc = "done"
    /\ result.true_positives = 1
    /\ result.false_positives = 1
    /\ result.false_negatives = 1

(***************************************************************************)
(* C3, as stated: with denominator 1 the sampled counts of the report      *)
(* equal the totals.                                                       *)
(***************************************************************************)
C3_SampledEqualsTotal ==
    (pc = "done" /\ fraction = 1) =>
        /\ result.reference_sampled = result.reference_total
        /\ result.candidate_sampled = result.candidate_total

(***************************************************************************)
(* C3, amended: with denominator 1 every length-valid word is included, so *)
(* each set is the set of the distinct admitted words of its input and     *)
(* each total the number of admitted records or lines; the sampled count   *)
(* equals the total exactly when no admitted word is repeated, and is      *)
(* smaller otherwise.                                                      *)
(***************************************************************************)
C3_FractionOneIncludesAll ==
    fraction = 1 =>
        /\ SuperdicReturning =>
            LET adm == AdmittedIdx(Records)
                word == WordsOf(Records)
            IN  /\ words = {word[i] : i \in adm}
                /\ total = Cardinality(adm)
                /\ (Cardinality(words) = total) <=>
                        (\A i, j \in adm : word[i] = word[j] => i = j)
        /\ pc = "load_candidate" =>
            /\ words = {NormalizeLine(consumed[i]) : i \in ValidLineIdx}
            /\ total = Cardinality(ValidLineIdx)
            /\ (Cardinality(words) = total) <=>
                    (\A i, j \in ValidLineIdx :
                        NormalizeLine(consumed[i]) = NormalizeLine(consumed[j]) => i = j)
        /\ pc = "done" =>
            /\ result.reference_sampled <= result.reference_total
            /\ result.candidate_sampled <= result.candidate_total

C3_Witness ==
    /\ fraction = 1
    /\ pc = "done"
    /\ result.reference_total = 2
    /\ result.reference_sampled = 2
    /\ result.candidate_total = 2
    /\ result.candidate_sampled = 2

(***************************************************************************)
(* C4. A denominator of 0 or below ends the run before the dictionary or   *)
(* any candidate line is read, and no report is produced.                  *)
(***************************************************************************)
C4_NonPositiveFatal ==
    fraction <= 0 =>
        /\ data = <<>>
        /\ consumed = <<>>
        /\ pc \notin {"decode", "load_candidate", "score", "done"}
        /\ result = NoReport

(***************************************************************************)
(* C5. A dictionary without the section marker, or with a non-empty record *)
(* that decodes to text without '=', aborts the run: without the marker    *)
(* the run exits at once; with a malformed record at any position the loop *)
(* raises no later than at that record, load_superdic never returns, and   *)
(* no report is produced.                                                  *)
(***************************************************************************)
C5_MalformedAborts ==
    /\ (data # <<>> /\ ~HasMarker) =>
            pc = "exit" /\ ref = {} /\ ref_total = 0 /\ result = NoReport
    /\ HasMarker =>
            LET recs == Records
            IN  \A i \in DOMAIN recs :
                    Malformed(recs[i]) =>
                        /\ ~SuperdicReturning
                        /\ pc \in {"decode", "raised"}
                        /\ i <= Len(recs) - Len(lines) => pc = "raised"
                        /\ ref = {} /\ ref_total = 0 /\ result = NoReport

C5_Witness ==
    /\ HasMarker
    /\ pc = "raised"
    /\ exc = "ValueError"
    /\ total = 1
    /\ Malformed(Records[2])

(***************************************************************************)
(* C6. The total load_superdic returns is the number of non-empty records  *)
(* whose word has length 2 to 9 and whose remainder after the first '='    *)
(* holds neither ";1" nor ";2", whatever the salt and the denominator.     *)
(***************************************************************************)
C6_TotalCountsAdmitted ==
    SuperdicReturning =>
        LET recs == Records
            adm == AdmittedIdx(recs)
            word == WordsOf(recs)
        IN  /\ total = Cardinality(adm)
            /\ \A i \in DOMAIN recs \ adm :
                    word[i] \in words => \E j \in adm : word[j] = word[i]

C6_Witness ==
    /\ SuperdicReturning
    /\ fraction = 2
    /\ total = 1
    /\ words = {}
    /\ \E i \in DOMAIN Records : Records[i] # <<>> /\ ~Admitted(Records[i])

(***************************************************************************)
(* C7, as stated: a word gets the same inclusion decision on the decoder   *)
(* path and on the candidate path. The decoder's decision on the record    *)
(* last visited is read from `words`; the candidate path's decision on the *)
(* same word is that of its loop body on the line holding the word.        *)
(***************************************************************************)
LastRecord == LET recs == Records IN recs[Len(recs) - Len(lines)]

\* the sequential loop has visited a record
Visiting == HasMarker /\ Len(Records) > Len(lines)

C8_EmptySetsScoreZero ==
    [][pc = "score" =>
        /\ pc' = "done"
        /\ ref = {} => result'.recall_pct = 0
        /\ candidate = {} => result'.precision_pct = 0]_vars

C8_Witness ==
    /\ pc = "done"
    /\ ref = {}
    /\ candidate # {}
    /\ result.recall_pct = 0
    /\ result.precision_pct = 0
    /\ result.false_positives = 2

(***************************************************************************)
(* C9. At every point of the run every word of the reference set and of    *)
(* the candidate set, while being built and once returned, has 2 to 9 code *)
(* points and satisfies the sampling predicate for the run's salt and      *)
(* denominator.                                                            *)
(***************************************************************************)
C9_SetsValidAndSampled ==
    \A w \in words \cup ref \cup candidate :
        /\ Len(w) >= 2
        /\ Len(w) <= 9
        /\ should_include(w, nonce, fraction) = [exc |-> "", ret |-> TRUE]

C9_Witness ==
    /\ pc = "done"
    /\ fraction = 3
    /\ ref # {}
    /\ candidate # {}
    /\ result.reference_sampled < result.reference_total
    /\ Len(consumed) = 2
    /\ result.candidate_total = 1

(***************************************************************************)
(* C10. Decoding the records in any order gives the outcome of the         *)
(* sequential left-to-right pass: the same total and the same set when the *)
(* pass returns, and an abort exactly when the pass aborts.                *)
(***************************************************************************)
C10_OrderIndependent ==
    HasMarker =>
        LET seq == LoadSequential(Records, 0, {}, nonce, fraction)
        IN  /\ SuperdicReturning =>
                seq.exc = "" /\ seq.total = total /\ seq.words = words
            /\ pc = "raised" => seq.exc # ""

C10_Witness ==
    /\ HasMarker
    /\ pc = "decode"
    /\ Len(Records) = 3
    /\ lines = <<Records[1]>>
    /\ Records[1] # Records[2]
    /\ total = 1
    /\ words # {}
    /\ Admitted(Records[1])

=============================================================================
